---- MODULE Spec2Model ----
(***************************************************************************)
(* Model of openEMS (openems.cpp): command-line parsing, SetupFDTD with    *)
(* SetupBoundaryConditions, and the time-stepping loop of RunFDTD.         *)
(* Strings of the input document are sequences of one-character strings,   *)
(* so that strncmp, atoi and sscanf("%d") are computed as the code does.   *)
(***************************************************************************)
EXTENDS Integers, Sequences, FiniteSets, TLC

(***************************************************************************)
(* Bounds of the model                                                     *)
(***************************************************************************)
\* largest timestep count requested by the run documents (besides the 10 of the scenario)
MaxNrTS == 2
\* largest step count returned by ProcessingArray::Process (smallest is -1)
MaxStep == 2
\* largest total energy returned by CalcTotalEnergy
MaxEnergy == 2
\* bursts, beyond one for every two timesteps of the budget, that are executed in one
\* run before the model stops following it
MaxBursts == 2
\* largest wall-clock time (seconds) one loop iteration takes
MaxDelta == 5
\* command-line arguments given to one program run
MaxArgs == 2

(***************************************************************************)
(* C strings                                                               *)
(***************************************************************************)
\* an attribute that the element does not have (Attribute() returns NULL)
NoAttr == <<"<none>">>

Digit == {"0", "1", "2", "3", "4", "5", "6", "7", "8", "9"}

DigitVal(c) ==
  CASE c = "0" -> 0 [] c = "1" -> 1 [] c = "2" -> 2 [] c = "3" -> 3
    [] c = "4" -> 4 [] c = "5" -> 5 [] c = "6" -> 6 [] c = "7" -> 7
    [] c = "8" -> 8 [] c = "9" -> 9

\* the character at index i (0-based) of the C string s; "" is the terminating NUL
CharAt(s, i) == IF i < Len(s) THEN s[i + 1] ELSE ""

RECURSIVE SkipSpace(_, _)
SkipSpace(s, i) == IF CharAt(s, i) = " " THEN SkipSpace(s, i + 1) ELSE i

RECURSIVE ScanDigits(_, _, _, _)
\* [n |-> number of digits read from index i on, val |-> their decimal value]
ScanDigits(s, i, n, acc) ==
  IF CharAt(s, i) \in Digit
  THEN ScanDigits(s, i + 1, n + 1, acc * 10 + DigitVal(CharAt(s, i)))
  ELSE [n |-> n, val |-> acc]

\* the decimal integer at the head of s: blanks, an optional sign, digits
ScanInt(s) ==
  LET i == SkipSpace(s, 0)
      neg == CharAt(s, i) = "-"
      j == IF CharAt(s, i) \in {"-", "+"} THEN i + 1 ELSE i
      d == ScanDigits(s, j, 0, 0)
  IN  [ok |-> d.n > 0, val |-> IF neg THEN 0 - d.val ELSE d.val]

\* atoi(s): the integer at the head of s, 0 when there is none
atoi(s) == IF ScanInt(s).ok THEN ScanInt(s).val ELSE 0

RECURSIVE StrNEqFrom(_, _, _, _)
StrNEqFrom(a, b, n, i) ==
  IF i >= n THEN TRUE
  ELSE IF CharAt(a, i) # CharAt(b, i) THEN FALSE
  ELSE IF CharAt(a, i) = "" THEN TRUE
  ELSE StrNEqFrom(a, b, n, i + 1)

\* strncmp(a, b, n) == 0
StrNEq(a, b, n) == StrNEqFrom(a, b, n, 0)

\* the C string s + k (k <= strlen(s))
StrFrom(s, k) == SubSeq(s, k + 1, Len(s))

(***************************************************************************)
(* tinyxml attribute queries                                               *)
(***************************************************************************)
TIXML_SUCCESS == 0
TIXML_NO_ATTRIBUTE == 1
TIXML_WRONG_TYPE == 2

\* QueryIntAttribute: [ec |-> result code, val |-> the value written on success]
QueryIntAttribute(attr) ==
  IF attr = NoAttr THEN [ec |-> TIXML_NO_ATTRIBUTE, val |-> 0]
  ELSE IF ScanInt(attr).ok THEN [ec |-> TIXML_SUCCESS, val |-> ScanInt(attr).val]
  ELSE [ec |-> TIXML_WRONG_TYPE, val |-> 0]

\* QueryDoubleAttribute on an attribute whose text is an integer literal or no number
QueryDoubleAttribute(attr) == QueryIntAttribute(attr)

(***************************************************************************)
(* SetupBoundaryConditions: the six faces                                  *)
(***************************************************************************)
Faces == 0 .. 5

PEC == 0
PMC == 1
MUR == 2
PML == 3
BoundaryTypes == {PEC, PMC, MUR, PML}

\* default pml size
DefaultPmlSize == 8

s_PEC == <<"P", "E", "C">>
s_PMC == <<"P", "M", "C">>
s_MUR == <<"M", "U", "R">>
s_PML == <<"P", "M", "L", "_", "=">>

\* a face attribute that reads as no number and is none of the known strings
ParseFaceUnknown(s_bc) == [bound |-> PEC, pml |-> DefaultPmlSize, diag |-> "unknown"]

\* the pml size read behind all five characters of "PML_="
ParseFaceStringBehindFive(s_bc) ==
  IF s_bc = s_PEC THEN [bound |-> 0, pml |-> DefaultPmlSize, diag |-> "none"]
  ELSE IF s_bc = s_PMC THEN [bound |-> 1, pml |-> DefaultPmlSize, diag |-> "none"]
  ELSE IF s_bc = s_MUR THEN [bound |-> 2, pml |-> DefaultPmlSize, diag |-> "none"]
  ELSE IF StrNEq(s_bc, s_PML, 4)
    THEN [bound |-> 3, pml |-> atoi(StrFrom(s_bc, 5)), diag |-> "none"]
  ELSE ParseFaceUnknown(s_bc)

\* the string branch of the face loop (EC == TIXML_WRONG_TYPE)
ParseFaceString(s_bc) ==
  IF s_bc = s_PEC THEN [bound |-> 0, pml |-> DefaultPmlSize, diag |-> "none"]
  ELSE IF s_bc = s_PMC THEN [bound |-> 1, pml |-> DefaultPmlSize, diag |-> "none"]
  ELSE IF s_bc = s_MUR THEN [bound |-> 2, pml |-> DefaultPmlSize, diag |-> "none"]
  ELSE IF StrNEq(s_bc, s_PML, 4)
    THEN [bound |-> 3, pml |-> atoi(StrFrom(s_bc, 4)), diag |-> "none"]
  ELSE ParseFaceUnknown(s_bc)

\* one pass of the face loop: the boundary code, the pml size and the diagnostic
ParseFace(attr) ==
  LET q == QueryIntAttribute(attr)
  IN  IF q.ec = TIXML_SUCCESS
        THEN [bound |-> q.val, pml |-> DefaultPmlSize, diag |-> "none"]
      ELSE IF q.ec = TIXML_WRONG_TYPE THEN ParseFaceString(attr)
      ELSE [bound |-> PEC, pml |-> DefaultPmlSize, diag |-> "notfound"]

\* the general phase velocity preferred to the one of the face
MurExtensionGeneralFirst(BC, n) ==
  LET q == QueryDoubleAttribute(BC.murFace[n + 1])
      g == QueryDoubleAttribute(BC.MUR_PhaseVelocity)
      mur_v_ph == IF g.ec # TIXML_SUCCESS THEN 0 - 1 ELSE g.val
  IN  [ext |-> "Mur", ny |-> n \div 2, top |-> n % 2,
       v_ph_set |-> (q.ec = TIXML_SUCCESS) \/ (mur_v_ph > 0),
       v_ph |-> IF mur_v_ph > 0 THEN mur_v_ph
                ELSE IF q.ec = TIXML_SUCCESS THEN q.val ELSE 0]

\* the Mur extension of face n, bounds[n] == 2
MurExtension(BC, n) ==
  LET q == QueryDoubleAttribute(BC.murFace[n + 1])
      g == QueryDoubleAttribute(BC.MUR_PhaseVelocity)
      mur_v_ph == IF g.ec # TIXML_SUCCESS THEN 0 - 1 ELSE g.val
  IN  [ext |-> "Mur", ny |-> n \div 2, top |-> n % 2,
       v_ph_set |-> (q.ec = TIXML_SUCCESS) \/ (mur_v_ph > 0),
       v_ph |-> IF q.ec = TIXML_SUCCESS THEN q.val
                ELSE IF mur_v_ph > 0 THEN mur_v_ph ELSE 0]

RECURSIVE MurExtensions(_, _, _)
\* the Mur extensions of the faces n .. 5 in the order they are added
MurExtensions(BC, bounds, n) ==
  IF n > 5 THEN <<>>
  ELSE (IF bounds[n + 1] = 2 THEN <<MurExtension(BC, n)>> ELSE <<>>)
       \o MurExtensions(BC, bounds, n + 1)

\* the calls that construct and register k Mur extensions, in order
MurCalls(k) ==
  [i \in 1 .. 2 * k |-> IF i % 2 = 1 THEN "new Operator_Ext_Mur_ABC" ELSE "AddExtension"]

\* the boundary types are handed over after the extensions
BoundaryCallsExtensionsFirst(k) ==
  MurCalls(k) \o <<"Create_UPML", "SetBoundaryCondition">>

\* the calls SetupBoundaryConditions makes on the operator, in order
BoundaryCalls(k) ==
  <<"SetBoundaryCondition">> \o MurCalls(k) \o <<"Create_UPML">>

\* SetupBoundaryConditions(BC) on the operator op
SetupBoundaryConditions(op, BC) ==
  LET face == [n \in 1 .. 6 |-> ParseFace(BC.face[n])]
      bounds == [n \in 1 .. 6 |-> face[n].bound]
      pml_size == [n \in 1 .. 6 |-> face[n].pml]
  IN  [op EXCEPT !.bounds = bounds,
                 !.calls = op.calls \o BoundaryCalls(Len(MurExtensions(BC, bounds, 0))),
                 !.bcDiag = [n \in 1 .. 6 |-> face[n].diag],
                 !.exts = op.exts \o MurExtensions(BC, bounds, 0),
                 !.upml = [created |-> TRUE, bounds |-> bounds, pml_size |-> pml_size,
                           gradFunc |-> IF BC.PML_Grading = NoAttr THEN <<>>
                                        ELSE BC.PML_Grading]]

(***************************************************************************)
(* The state: the openEMS object, the working directory, the position of   *)
(* the program and the locals of RunFDTD                                   *)
(***************************************************************************)
VARIABLES
  FDTD_Op, FDTD_Eng, PA,               \* the operator, the engine, the processing array
  CylinderCoords, Enable_Dumps, debug, \* debug: DebugMat, DebugOp, m_debugCSX, m_debugBox, m_debugPEC
  m_no_simulation, endCrit, m_OverSampling,
  m_engine, m_engine_numThreads, m_Abort, NrTS,
  sentinel,                            \* the file "ABORT" exists in the working directory
  pc,                                  \* where the program is
  status,                              \* what SetupFDTD returned or passed to exit()
  failure,                             \* the fatal failure SetupFDTD ran into, "none" if none
  nargs,                               \* command-line arguments parsed so far
  input,                               \* the document the last SetupFDTD was given
  destroyed,                           \* the objects the last Reset() deleted, in order
  step, maxE, currE, change, tdiff,    \* locals of RunFDTD; tdiff is currTime - prevTime
  bursts,                              \* calls of FDTD_Eng->IterateTS in this run
  processCalls,                        \* calls of PA->Process in this run
  lastIter,                            \* what the last loop iteration did
  stopState                            \* Running, Converged, BudgetExhausted or Aborted

vars ==
  <<FDTD_Op, FDTD_Eng, PA, CylinderCoords, Enable_Dumps, debug, m_no_simulation, endCrit,
    m_OverSampling, m_engine, m_engine_numThreads, m_Abort, NrTS, sentinel, pc, status,
    failure, nargs, input, destroyed, step, maxE, currE, change, tdiff, bursts,
    processCalls, lastIter, stopState>>

objVars ==
  <<FDTD_Op, FDTD_Eng, PA, CylinderCoords, Enable_Dumps, debug, m_no_simulation, endCrit,
    m_OverSampling, m_engine, m_engine_numThreads, NrTS, destroyed>>

runVars == <<step, maxE, currE, change, tdiff, bursts, processCalls, lastIter, stopState>>

NULL == [null |-> TRUE]

\* doubles are fractions <<numerator, denominator>> with a positive denominator
RECURSIVE GCD(_, _)
GCD(a, b) == IF b = 0 THEN a ELSE GCD(b, a % b)

\* the double a / b, b > 0
Frac(a, b) == <<a \div GCD(a, b), b \div GCD(a, b)>>

\* x > y for doubles
Greater(x, y) == x[1] * y[2] > y[1] * x[2]

\* a double attribute that the element does not have
NoDouble == <<0, 0>>

\* endCrit = 1e-6
DefaultEndCrit == <<1, 1000000>>

\* m_OverSampling = 4
DefaultOverSampling == 4

\* due: CheckTimestep() held; report: t_diff>4 held; samples: calls of CalcTotalEnergy;
\* clamped: the step PA->Process() returned was replaced by the timesteps left
\* returned: the step PA->Process() returned last
\* flushed: PA->FlushNext() was called; since: the seconds that have passed since the
\* last flush or, without one, since RunFDTD took the time ahead of the loop
\* late: more than 4 of these seconds had passed when the iteration looked at the clock
NoIter ==
  [due |-> FALSE, report |-> FALSE, samples |-> 0, clamped |-> FALSE, returned |-> 0,
   flushed |-> FALSE, since |-> 0, late |-> FALSE]

\* no document yet
NoDoc == [file |-> FALSE]

\* the locals of RunFDTD before RunFDTD has run
IdleRun ==
  /\ step = 0 /\ maxE = 0 /\ currE = 0 /\ change = <<1, 1>> /\ tdiff = 0
  /\ bursts = 0 /\ processCalls = 0 /\ lastIter = NoIter /\ stopState = "Running"

\* openEMS::openEMS()
Init ==
  /\ FDTD_Op = NULL /\ FDTD_Eng = NULL /\ PA = NULL
  /\ CylinderCoords = FALSE
  /\ Enable_Dumps = TRUE
  /\ debug = [DebugMat |-> FALSE, DebugOp |-> FALSE, m_debugCSX |-> FALSE,
              m_debugBox |-> FALSE, m_debugPEC |-> FALSE]
  /\ m_no_simulation = FALSE
  /\ endCrit = DefaultEndCrit
  /\ m_OverSampling = DefaultOverSampling
  /\ m_engine = "EngineType_Standard"
  /\ m_engine_numThreads = 0
  /\ m_Abort = FALSE
  /\ NrTS = 0
  /\ sentinel = FALSE
  /\ pc = "constructed" /\ status = 0 /\ failure = "none" /\ nargs = 0
  /\ input = NoDoc
  /\ destroyed = <<>>
  /\ IdleRun

(***************************************************************************)
(* parseCommandLineArgument                                                *)
(***************************************************************************)
\* an argument is the option text the code compares with and what follows it
Arg(opt, rest) == [opt |-> opt, rest |-> rest]

Arguments ==
  { Arg(o, <<>>) : o \in {"--disable-dumps", "--debug-material", "--debug-operator",
                          "--debug-boxes", "--debug-PEC", "--debug-CSX",
                          "--engine=multithreaded", "--engine=sse",
                          "--engine=sse-compressed", "--engine=fastest",
                          "--no-simulation", "--help"} }
  \cup { Arg("--numThreads=", r) : r \in {<<"2">>, <<"x">>} }

\* the value of m_engine after the argument
EngineOf(argv, old) ==
  IF argv.opt = "--engine=multithreaded" THEN "EngineType_Multithreaded"
  ELSE IF argv.opt = "--engine=sse" THEN "EngineType_SSE"
  ELSE IF argv.opt = "--engine=sse-compressed" THEN "EngineType_SSE_Compressed"
  ELSE IF argv.opt = "--engine=fastest" THEN "EngineType_Multithreaded"
  ELSE old

\* the value of m_no_simulation after the argument
NoSimulationOf(argv, old) == IF argv.opt = "--no-simulation" THEN TRUE ELSE old

parseCommandLineArgument(argv) ==
  /\ pc = "constructed"
  /\ nargs < MaxArgs
  /\ nargs' = nargs + 1
  /\ Enable_Dumps' = IF argv.opt = "--disable-dumps" THEN FALSE ELSE Enable_Dumps
  /\ debug' = [DebugMat |-> debug.DebugMat \/ argv.opt = "--debug-material",
               DebugOp |-> debug.DebugOp \/ argv.opt = "--debug-operator",
               m_debugBox |-> debug.m_debugBox \/ argv.opt = "--debug-boxes",
               m_debugPEC |-> debug.m_debugPEC \/ argv.opt = "--debug-PEC",
               m_debugCSX |-> debug.m_debugCSX \/ argv.opt = "--debug-CSX"]
  /\ m_engine' = EngineOf(argv, m_engine)
  /\ m_engine_numThreads' =
       IF argv.opt = "--numThreads=" THEN atoi(argv.rest) ELSE m_engine_numThreads
  /\ m_no_simulation' = NoSimulationOf(argv, m_no_simulation)
  /\ UNCHANGED <<FDTD_Op, FDTD_Eng, PA, CylinderCoords, endCrit, m_OverSampling, m_Abort,
                 NrTS, sentinel, pc, status, failure, input, destroyed>>
  /\ UNCHANGED runVars

(***************************************************************************)
(* SetupFDTD                                                               *)
(***************************************************************************)
\* the operator that Operator::New and its variants return
NewOperator(variant, numThreads) ==
  [variant |-> variant, numThreads |-> numThreads, geometry |-> FALSE,
   bounds |-> <<>>, bcDiag |-> <<>>, exts |-> <<>>,
   upml |-> [created |-> FALSE, bounds |-> <<>>, pml_size |-> <<>>, gradFunc |-> <<>>],
   timestep |-> 0, debugFlags |-> {}, excNrTS |-> 0 - 1, Nyquist |-> 0,
   calls |-> <<>>]

\* the engine is looked at ahead of the coordinate system
OperatorVariantEngineFirst(cyl, multiGrid, engine) ==
  IF engine = "EngineType_SSE" THEN "Operator_sse"
  ELSE IF engine = "EngineType_SSE_Compressed" THEN "Operator_SSE_Compressed"
  ELSE IF engine = "EngineType_Multithreaded" THEN "Operator_Multithread"
  ELSE IF cyl THEN (IF multiGrid THEN "Operator_CylinderMultiGrid" ELSE "Operator_Cylinder")
  ELSE "Operator"

\* the operator variant set up for the coordinate system, the MultiGrid attribute and the engine
OperatorVariant(cyl, multiGrid, engine) ==
  IF cyl THEN (IF multiGrid THEN "Operator_CylinderMultiGrid" ELSE "Operator_Cylinder")
  ELSE IF engine = "EngineType_SSE" THEN "Operator_sse"
  ELSE IF engine = "EngineType_SSE_Compressed" THEN "Operator_SSE_Compressed"
  ELSE IF engine = "EngineType_Multithreaded" THEN "Operator_Multithread"
  ELSE "Operator"

\* the threads handed to the variant's New (the sse and standard operators take none)
OperatorThreads(variant, numThreads) ==
  IF variant \in {"Operator_sse", "Operator_SSE_Compressed", "Operator"} THEN 0
  ELSE numThreads

\* the operator deleted ahead of the engine
DestroyOrderOperatorFirst == <<"PA", "FDTD_Op", "FDTD_Eng">>

\* void openEMS::Reset(): delete PA; delete FDTD_Eng; delete FDTD_Op
DestroyOrder == <<"PA", "FDTD_Eng", "FDTD_Op">>

\* the objects Reset() deletes, in order: those that exist
Destroyed(pa, eng, op) ==
  LET Exists(o) == \/ (o = "PA" /\ pa # NULL)
                   \/ (o = "FDTD_Eng" /\ eng # NULL)
                   \/ (o = "FDTD_Op" /\ op # NULL)
  IN  SelectSeq(DestroyOrder, Exists)

\* the first fatal failure of SetupFDTD on the document, "none" if it has none
FailureOf(doc) ==
  IF ~doc.file THEN "file_null"
  ELSE IF ~doc.loads THEN "load"
  ELSE IF ~doc.hasOpenEMS THEN "no_openEMS"
  ELSE IF ~doc.hasFDTD THEN "no_FDTD"
  ELSE IF ~doc.hasBC THEN "no_BC"
  ELSE IF ~doc.geometryOK THEN "geometry"
  ELSE IF ~doc.excitationOK THEN "excitation"
  ELSE "none"

\* the failures that end the process with exit(), the others return
ExitFailures == {"load", "no_openEMS", "no_FDTD", "no_BC", "excitation"}

\* the missing boundary-condition block reported like the other missing blocks
FailureStatusOneExit(f) ==
  CASE f = "file_null" -> 0 - 1
    [] f = "load" -> 0 - 1
    [] f = "no_openEMS" -> 0 - 1
    [] f = "no_FDTD" -> 0 - 1
    [] f = "no_BC" -> 0 - 1
    [] f = "geometry" -> 2
    [] f = "excitation" -> 2

\* the status of each fatal failure
FailureStatus(f) ==
  CASE f = "file_null" -> 0 - 1
    [] f = "load" -> 0 - 1
    [] f = "no_openEMS" -> 0 - 1
    [] f = "no_FDTD" -> 0 - 1
    [] f = "no_BC" -> 0 - 3
    [] f = "geometry" -> 2
    [] f = "excitation" -> 2

\* the status SetupFDTD returns when the simulation is disabled
NoSimulationStatus == 1

\* the status SetupFDTD returns after setting up the processing
SuccessStatus == 0

\* NrTS from the attribute NumberOfTimesteps
RequestedNrTS(doc) ==
  LET q == QueryIntAttribute(doc.NumberOfTimesteps)
      help == IF q.ec = TIXML_SUCCESS THEN q.val ELSE 0
  IN  IF help < 0 THEN 0 ELSE help

\* CylinderCoords after the attribute CylinderCoords
CylinderCoordsOf(doc, old) ==
  LET q == QueryIntAttribute(doc.CylinderCoords)
      help == IF q.ec = TIXML_SUCCESS THEN q.val ELSE 0
  IN  IF help = 1 THEN TRUE ELSE old

\* endCrit after the attribute endCriteria
EndCritOf(doc, old) ==
  LET e == IF doc.endCriteria = NoDouble THEN old ELSE doc.endCriteria
  IN  IF e[1] = 0 THEN DefaultEndCrit ELSE e

\* m_OverSampling after the attribute OverSampling
OverSamplingOf(doc, old) ==
  LET q == QueryIntAttribute(doc.OverSampling)
      o == IF q.ec = TIXML_SUCCESS THEN q.val ELSE old
  IN  IF o < 2 THEN 2 ELSE o

\* the value of a double attribute, dflt when it cannot be read
DoubleOr(attr, dflt) ==
  LET q == QueryDoubleAttribute(attr) IN IF q.ec = TIXML_SUCCESS THEN q.val ELSE dflt

\* the timestep of the operator: the attribute TimeStep when it is nonzero
TimestepOf(doc) ==
  IF DoubleOr(doc.TimeStep, 0) # 0 THEN DoubleOr(doc.TimeStep, 0) ELSE doc.calcTimestep

\* (unsigned int)(maxTime/FDTD_Op->GetTimestep()): the conversion of a negative
\* quotient is undefined, its outcome is the document's unsignedOfNegative
MaxTimeTS(doc) ==
  LET maxTime == DoubleOr(doc.MaxTime, 0)
  IN  IF maxTime < 0 THEN doc.unsignedOfNegative ELSE maxTime \div TimestepOf(doc)

\* the cap replaces NrTS even when it is zero
CappedNrTSZeroCaps(doc, nrts) ==
  IF MaxTimeTS(doc) < nrts THEN MaxTimeTS(doc) ELSE nrts

\* NrTS after the MaxTime cap
CappedNrTS(doc, nrts) ==
  LET maxTime_TS == MaxTimeTS(doc)
  IN  IF maxTime_TS > 0 /\ maxTime_TS < nrts THEN maxTime_TS ELSE nrts

\* Operator::DebugFlags handed to CalcECOperator
DebugFlagsOf(d) ==
  (IF d.DebugMat THEN {"debugMaterial"} ELSE {})
    \cup (IF d.DebugOp THEN {"debugOperator"} ELSE {})
    \cup (IF d.m_debugPEC THEN {"debugPEC"} ELSE {})

\* FDTD_Op->SetGeometryCSX(&CSX) and whether it succeeds
SetGeometryCSX(op, ok) ==
  [op EXCEPT !.geometry = ok, !.calls = op.calls \o <<"SetGeometryCSX">>]

\* the operator after geometry, boundary conditions, extensions and the excitation
BuiltOperator(doc, cyl, nrts) ==
  LET variant == OperatorVariant(cyl, doc.MultiGrid, m_engine)
      op0 == NewOperator(variant, OperatorThreads(variant, m_engine_numThreads))
      op1 == SetupBoundaryConditions(SetGeometryCSX(op0, TRUE), doc.BC)
      op2 == IF doc.lorentz > 0
             THEN [op1 EXCEPT !.exts = op1.exts \o <<[ext |-> "Lorentz"]>>,
                              !.calls = op1.calls \o <<"new Operator_Ext_LorentzMaterial",
                                                       "AddExtension">>]
             ELSE op1
  IN  [op2 EXCEPT !.timestep = TimestepOf(doc), !.debugFlags = DebugFlagsOf(debug),
                  !.excNrTS = CappedNrTS(doc, nrts), !.Nyquist = doc.Nyquist]

\* the mode-match types 10 and 11 not known
ProbeKindNoModeMatch(type) ==
  IF type = 0 THEN "ProcessVoltage"
  ELSE IF type = 1 THEN "ProcessCurrent"
  ELSE IF type = 2 THEN "ProcessEField"
  ELSE IF type = 3 THEN "ProcessHField"
  ELSE "unknown"

\* the processing class of a probe type, "unknown" for a type the code does not know
ProbeKind(type) ==
  IF type = 0 THEN "ProcessVoltage"
  ELSE IF type = 1 THEN "ProcessCurrent"
  ELSE IF type = 2 THEN "ProcessEField"
  ELSE IF type = 3 THEN "ProcessHField"
  ELSE IF type = 10 \/ type = 11 THEN "ProcessModeMatch"
  ELSE "unknown"

\* the interval without the oversampling
ProcessIntervalNyquist(Nyquist, overSampling) == Nyquist

\* SetProcessInterval(Nyquist/m_OverSampling)
ProcessInterval(Nyquist, overSampling) == Nyquist \div overSampling

\* a processing whose interval SetProcessInterval has set
Processing(kind, region, interval, cyl, enabled) ==
  [kind |-> kind, region |-> region, intervalSet |-> TRUE, interval |-> interval,
   mesh |-> IF cyl THEN "CYLINDRICAL_MESH" ELSE "CARTESIAN_MESH", enabled |-> enabled]

\* the energy-tracking processing of RunFDTD: only the engine interface is set
ProcField ==
  [kind |-> "ProcessFields", region |-> <<"endCrit", 0>>, intervalSet |-> FALSE,
   interval |-> 0, mesh |-> "CARTESIAN_MESH", enabled |-> TRUE]

RECURSIVE ProbeProcessings(_, _, _, _, _)
\* the processings added for the probes i .. Probes.size()
ProbeProcessings(probes, i, Nyquist, overSampling, cyl) ==
  IF i > Len(probes) THEN <<>>
  ELSE (IF probes[i].prim /\ probes[i].pb /\ ProbeKind(probes[i].type) # "unknown"
        THEN <<Processing(ProbeKind(probes[i].type), <<"probe", i>>,
                          ProcessInterval(Nyquist, overSampling), cyl, TRUE)>>
        ELSE <<>>)
       \o ProbeProcessings(probes, i + 1, Nyquist, overSampling, cyl)

RECURSIVE DumpProcessings(_, _, _, _, _, _)
\* the processings added for the dump boxes i .. DumpProps.size()
DumpProcessings(dumps, i, Nyquist, overSampling, cyl, enabled) ==
  IF i > Len(dumps) THEN <<>>
  ELSE (IF dumps[i].prim /\ dumps[i].db
        THEN <<Processing("ProcessFieldsTD", <<"dump", i>>,
                          ProcessInterval(Nyquist, overSampling), cyl, enabled)>>
        ELSE <<>>)
       \o DumpProcessings(dumps, i + 1, Nyquist, overSampling, cyl, enabled)

\* the processing array SetupFDTD builds
BuiltPA(doc, cyl, overSampling) ==
  [maxInterval |-> doc.Nyquist,
   procs |-> ProbeProcessings(doc.probes, 1, doc.Nyquist, overSampling, cyl)
             \o DumpProcessings(doc.dumps, 1, doc.Nyquist, overSampling, cyl, Enable_Dumps)]

\* the engine FDTD_Op->CreateEngine() returns
NewEngine == [numTS |-> 0]

\* the failures after which the FDTD settings have been read
AfterSettings == {"no_BC", "geometry", "excitation", "none"}

\* the engine created before m_no_simulation is looked at
SimulateAlways(f) == f = "none"

\* the engine and the processing are set up: no failure, and the simulation is not disabled
Simulate(f) == f = "none" /\ ~m_no_simulation

\* int openEMS::SetupFDTD(const char* file)
SetupFDTD(doc) ==
  LET f == FailureOf(doc)
      read == f \in AfterSettings
      cyl == IF read THEN CylinderCoordsOf(doc, CylinderCoords) ELSE CylinderCoords
      over == IF read THEN OverSamplingOf(doc, m_OverSampling) ELSE m_OverSampling
      nrts == IF read THEN RequestedNrTS(doc) ELSE NrTS
      built == f \in {"excitation", "none"}
      variant == OperatorVariant(cyl, doc.MultiGrid, m_engine)
      simulate == Simulate(f)
  IN  /\ pc \in {"constructed", "setup_done", "done"}
      /\ input' = doc
      /\ failure' = f
      /\ status' = IF f # "none" THEN FailureStatus(f)
                   ELSE IF m_no_simulation THEN NoSimulationStatus ELSE SuccessStatus
      /\ pc' = IF f \in ExitFailures THEN "exited" ELSE "setup_done"
      /\ CylinderCoords' = cyl
      /\ m_OverSampling' = over
      /\ endCrit' = IF read THEN EndCritOf(doc, endCrit) ELSE endCrit
      /\ NrTS' = IF built THEN CappedNrTS(doc, nrts) ELSE nrts
      /\ FDTD_Op' = IF f = "file_null" THEN FDTD_Op
                    ELSE IF built THEN BuiltOperator(doc, cyl, nrts)
                    ELSE IF f = "geometry"
                      THEN SetGeometryCSX(
                             NewOperator(variant, OperatorThreads(variant, m_engine_numThreads)),
                             FALSE)
                    ELSE NULL
      /\ FDTD_Eng' = IF f = "file_null" THEN FDTD_Eng
                     ELSE IF simulate THEN NewEngine ELSE NULL
      /\ PA' = IF f = "file_null" THEN PA
               ELSE IF simulate THEN BuiltPA(doc, cyl, over) ELSE NULL
      /\ step' = 0 /\ maxE' = 0 /\ currE' = 0 /\ change' = <<1, 1>> /\ tdiff' = 0
      /\ bursts' = 0 /\ processCalls' = 0 /\ lastIter' = NoIter /\ stopState' = "Running"
      /\ destroyed' = IF f = "file_null" THEN destroyed
                       ELSE Destroyed(PA, FDTD_Eng, FDTD_Op)
      /\ UNCHANGED <<Enable_Dumps, debug, m_no_simulation, m_engine, m_engine_numThreads,
                     m_Abort, sentinel, nargs>>

(***************************************************************************)
(* RunFDTD                                                                 *)
(***************************************************************************)
\* the step counts PA->Process() may return
StepValues == (0 - 1) .. MaxStep

\* the total energies CalcTotalEnergy() may return
EnergyValues == 0 .. MaxEnergy

\* the seconds one loop iteration may take
DeltaValues == {0, 3, MaxDelta}

\* seconds after which the progress is reported
ReportPeriod == 4

\* a report at every burst boundary
ReportDueAlways(t_diff) == t_diff >= 0

\* if (t_diff>4): the progress is reported and the processing array flushed
ReportDue(t_diff) == t_diff > ReportPeriod

\* the program runs the simulation only after SetupFDTD returned 0
MayRun == status = SuccessStatus

\* FDTD_Eng->IterateTS(iterTS): the engine after iterTS more timesteps
IterateTS(eng, iterTS) == [eng EXCEPT !.numTS = @ + iterTS]

\* the first step clamped only when it is negative
FirstStepNoUpperClamp(s, nrts) == IF s < 0 THEN nrts ELSE s

\* the step after the first PA->Process(): if ((step<0) || (step>(int)NrTS)) step=NrTS
\* (NrTS comes from a non-negative int, so the casts between int and unsigned keep it)
FirstStep(s, nrts) == IF s < 0 \/ s > nrts THEN nrts ELSE s

\* the clamp to the timesteps left forgotten for too large a step
NextStepNoUpperClamp(s, nrts, currTS) == IF s < 0 THEN nrts - currTS ELSE s

\* the step inside the loop: if ((step<0) || (step>(int)(NrTS - currTS))) step=NrTS - currTS
NextStep(s, nrts, currTS) ==
  LET left == nrts - currTS
  IN  IF s < 0 \/ s > left THEN left ELSE s

\* the running maximum overwritten by every sample
NewMaxEAlways(e, m) == e

\* maxE after a sample: if (currE>maxE) maxE=currE
NewMaxE(e, m) == IF e > m THEN e ELSE m

\* the ratio taken without looking at maxE: no number when maxE is zero, and no
\* number is greater than endCrit
NewChangeUnguarded(e, m, old) == IF m # 0 THEN Frac(e, m) ELSE <<0, 1>>

\* change after a progress report: if (maxE) change = currE/maxE
NewChange(e, m, old) == IF m # 0 THEN Frac(e, m) ELSE old

\* the file ABORT not looked for
CheckAbortFlagOnly == m_Abort

\* bool openEMS::CheckAbortCond()
CheckAbortCond == m_Abort \/ sentinel

\* a loop that is entered without a call of PA->Process()
ProcessOnlyInLoop(calls) == calls

\* the calls of PA->Process() after the one ahead of the loop
ProcessBeforeLoop(calls) == calls + 1

\* the calls of PA->Process() after the one that follows a burst
ProcessAfterBurst(calls) == calls + 1

\* the part of RunFDTD before the loop, PA->Process() returning one of steps
RunFDTDWith(steps) ==
  /\ pc = "setup_done"
  /\ MayRun
  /\ PA' = [PA EXCEPT !.procs = Append(@, ProcField)]
  /\ maxE' = 0 /\ currE' = 0 /\ change' = <<1, 1>> /\ tdiff' = 0
  /\ \E s \in steps :
       /\ step' = FirstStep(s, NrTS)
       /\ lastIter' = [NoIter EXCEPT !.clamped = (FirstStep(s, NrTS) # s),
                                     !.returned = s]
  /\ processCalls' = ProcessBeforeLoop(0)
  /\ bursts' = 0 /\ stopState' = "Running"
  /\ pc' = "loop"
  /\ UNCHANGED <<FDTD_Op, FDTD_Eng, CylinderCoords, Enable_Dumps, debug, m_no_simulation,
                 endCrit, m_OverSampling, m_engine, m_engine_numThreads, m_Abort, NrTS,
                 sentinel, status, failure, nargs, input, destroyed>>

\* the loop condition without (change>endCrit)
LoopStateNoEndCrit ==
  IF ~(FDTD_Eng.numTS < NrTS) THEN "BudgetExhausted"
  ELSE IF CheckAbortCond THEN "Aborted"
  ELSE "Running"

\* the stop state the loop condition yields, Running when the loop goes on
LoopState ==
  IF ~(FDTD_Eng.numTS < NrTS) THEN "BudgetExhausted"
  ELSE IF ~Greater(change, endCrit) THEN "Converged"
  ELSE IF CheckAbortCond THEN "Aborted"
  ELSE "Running"

\* the condition of the while loop, evaluated at a burst boundary; when it fails
\* RunFDTD prints the statistics and returns, which ends the life of its locals
LoopCondition ==
  /\ pc = "loop"
  /\ stopState' = LoopState
  /\ IF LoopState = "Running"
     THEN /\ pc' = "burst"
          /\ UNCHANGED <<step, maxE, currE, change, tdiff, lastIter>>
     ELSE /\ pc' = "done"
          /\ step' = 0 /\ maxE' = 0 /\ currE' = 0 /\ change' = <<1, 1>> /\ tdiff' = 0
          /\ lastIter' = NoIter
  /\ UNCHANGED objVars
  /\ UNCHANGED <<m_Abort, sentinel, status, failure, nargs, input, bursts, processCalls>>

\* the body of the while loop: one burst, the processing and the progress report,
\* PA->Process() returning one of steps
LoopBodyWith(steps) ==
  /\ pc = "burst"
  /\ bursts < MaxBursts + NrTS \div 2
  /\ \E s \in steps, due \in BOOLEAN, e1 \in EnergyValues, e2 \in EnergyValues,
        d \in DeltaValues :
       LET eng == IterateTS(FDTD_Eng, step)
           currE1 == IF due THEN e1 ELSE currE
           maxE1 == IF due THEN NewMaxE(e1, maxE) ELSE maxE
           currTS == eng.numTS
           t_diff == tdiff + d
           report == ReportDue(t_diff)
           currE2 == IF report THEN e2 ELSE currE1
           maxE2 == IF report THEN NewMaxE(e2, maxE1) ELSE maxE1
       IN  /\ (~due => e1 = 0)
           /\ (~report => e2 = 0)
           /\ FDTD_Eng' = eng
           /\ step' = NextStep(s, NrTS, currTS)
           /\ currE' = currE2
           /\ maxE' = maxE2
           /\ change' = IF report THEN NewChange(currE2, maxE2, change) ELSE change
           /\ tdiff' = IF report THEN 0 ELSE t_diff
           /\ lastIter' = [due |-> due, report |-> report,
                           samples |-> (IF due THEN 1 ELSE 0) + (IF report THEN 1 ELSE 0),
                           clamped |-> (NextStep(s, NrTS, currTS) # s),
                           returned |-> s,
                           flushed |-> report,
                           since |-> IF report THEN 0 ELSE lastIter.since + d,
                           late |-> (lastIter.since + d > 4)]
  /\ bursts' = bursts + 1
  /\ processCalls' = ProcessAfterBurst(processCalls)
  /\ pc' = "loop"
  /\ UNCHANGED <<FDTD_Op, PA, CylinderCoords, Enable_Dumps, debug, m_no_simulation, endCrit,
                 m_OverSampling, m_engine, m_engine_numThreads, m_Abort, NrTS, sentinel,
                 status, failure, nargs, input, destroyed, stopState>>

\* RunFDTD and its loop body with a processing array that may return any step count
RunFDTD == RunFDTDWith(StepValues)

LoopBody == LoopBodyWith(StepValues)

(***************************************************************************)
(* The environment of the run: the abort flag and the file ABORT           *)
(***************************************************************************)
DuringRun == pc \in {"loop", "burst", "done"}

\* m_Abort is set externally
SetAbort ==
  /\ DuringRun /\ ~m_Abort
  /\ m_Abort' = TRUE
  /\ UNCHANGED objVars /\ UNCHANGED runVars
  /\ UNCHANGED <<sentinel, pc, status, failure, nargs, input>>

\* somebody creates the file ABORT
CreateAbortFile ==
  /\ DuringRun /\ ~sentinel
  /\ sentinel' = TRUE
  /\ UNCHANGED objVars /\ UNCHANGED runVars
  /\ UNCHANGED <<m_Abort, pc, status, failure, nargs, input>>

\* somebody removes the file ABORT
RemoveAbortFile ==
  /\ DuringRun /\ sentinel
  /\ sentinel' = FALSE
  /\ UNCHANGED objVars /\ UNCHANGED runVars
  /\ UNCHANGED <<m_Abort, pc, status, failure, nargs, input>>

(***************************************************************************)
(* The input documents                                                     *)
(***************************************************************************)
AllFaces(v) == [n \in 1 .. 6 |-> v]

OneFace(f, v, w) == [n \in 1 .. 6 |-> IF n = f THEN v ELSE w]

Probe(prim, type) == [prim |-> prim, pb |-> TRUE, type |-> type]

Dump(prim) == [prim |-> prim, db |-> TRUE]

\* a document with all blocks, PEC on all faces, no probes and no timesteps
BaseDoc ==
  [file |-> TRUE, loads |-> TRUE, hasOpenEMS |-> TRUE, hasFDTD |-> TRUE, hasBC |-> TRUE,
   NumberOfTimesteps |-> NoAttr, CylinderCoords |-> NoAttr, endCriteria |-> NoDouble,
   OverSampling |-> NoAttr, MaxTime |-> NoAttr, TimeStep |-> NoAttr, MultiGrid |-> FALSE,
   BC |-> [face |-> AllFaces(<<"0">>), PML_Grading |-> NoAttr,
           MUR_PhaseVelocity |-> NoAttr, murFace |-> AllFaces(NoAttr)],
   geometryOK |-> TRUE, lorentz |-> 0, calcTimestep |-> 1, excitationOK |-> TRUE,
   Nyquist |-> 8, probes |-> <<>>, dumps |-> <<>>, unsignedOfNegative |-> 0]

\* the documents with a fatal failure
FailingDocs ==
  {[BaseDoc EXCEPT !.file = FALSE], [BaseDoc EXCEPT !.loads = FALSE],
   [BaseDoc EXCEPT !.hasOpenEMS = FALSE], [BaseDoc EXCEPT !.hasFDTD = FALSE],
   [BaseDoc EXCEPT !.hasBC = FALSE], [BaseDoc EXCEPT !.geometryOK = FALSE],
   [BaseDoc EXCEPT !.excitationOK = FALSE]}

\* the values of a face attribute
FaceAttrValues ==
  {NoAttr, <<>>, <<"0">>, <<"1">>, <<"2">>, <<"3">>, <<"5">>, <<"-", "1">>,
   s_PEC, s_PMC, s_MUR, <<"P", "M", "L">>, <<"P", "M", "L", "_">>,
   <<"P", "M", "L", "_", "8">>, <<"P", "M", "L", "_", "1", "2">>,
   <<"P", "M", "L", "_", "=", "1", "2">>, <<"p", "e", "c">>, <<"M", "U", "R", "x">>}

\* the documents that differ in the boundary conditions
BoundaryDocs ==
  {[BaseDoc EXCEPT !.BC.face = OneFace(f, v, w)] :
     f \in 1 .. 6, v \in FaceAttrValues, w \in {<<"0">>, <<"P", "M", "L", "_", "8">>}}

\* the values of a phase-velocity attribute
PhaseVelocityValues == {NoAttr, <<"3">>, <<"5">>, <<"0">>, <<"-", "1">>, <<"x">>}

\* the documents with a Mur face: its phase velocity, the general one, and the other faces
MurDocs ==
  {[BaseDoc EXCEPT !.BC.face = OneFace(f, s_MUR, w), !.BC.murFace = OneFace(f, p, q),
                   !.BC.MUR_PhaseVelocity = g] :
     f \in 1 .. 6, w \in {<<"0">>, <<"2">>}, p \in PhaseVelocityValues \ {<<"5">>},
     q \in {NoAttr, <<"5">>}, g \in PhaseVelocityValues \ {<<"3">>}}

NyquistValues == {0, 1, 7, 8}

OverSamplingValues == {NoAttr, <<"0">>, <<"2">>, <<"3">>, <<"x">>}

ProbeLists ==
  {<<>>, <<Probe(TRUE, 0), Probe(TRUE, 1)>>, <<Probe(TRUE, 2), Probe(FALSE, 3), Probe(TRUE, 3)>>,
   <<Probe(TRUE, 10), Probe(TRUE, 5), Probe(TRUE, 11)>>}

DumpLists == {<<>>, <<Dump(TRUE)>>, <<Dump(FALSE), Dump(TRUE)>>}

\* the documents that differ in the sampling and in the probes and dump boxes
SamplingDocs ==
  {[BaseDoc EXCEPT !.Nyquist = n, !.OverSampling = o, !.probes = p, !.dumps = d] :
     n \in NyquistValues, o \in OverSamplingValues, p \in ProbeLists, d \in DumpLists}

\* the requested timestep counts of the run documents
TimestepAttrValues ==
  {IF n < 0 THEN <<"-", "1">> ELSE IF n = 0 THEN <<"0">> ELSE IF n = 1 THEN <<"1">>
   ELSE IF n = 2 THEN <<"2">> ELSE IF n = 3 THEN <<"3">> ELSE IF n = 4 THEN <<"4">>
   ELSE <<"5">> : n \in (0 - 1) .. MaxNrTS}

EndCritValues == {NoDouble, <<1, 2>>}

\* the documents that differ in the timestep budget and in the end criterion
RunDocs ==
  {[BaseDoc EXCEPT !.NumberOfTimesteps = t, !.endCriteria = e,
                   !.probes = <<Probe(TRUE, 0)>>] :
     t \in TimestepAttrValues, e \in EndCritValues}

\* the documents that differ in the coordinate system
VariantDocs ==
  {[BaseDoc EXCEPT !.CylinderCoords = c, !.MultiGrid = m] :
     c \in {<<"0">>, <<"1">>}, m \in BOOLEAN}

\* the documents of the program used with command-line arguments: they request no timesteps
CoreDocs == FailingDocs \cup VariantDocs \cup {BaseDoc}

\* the documents of the setup: one of them requests a timestep
SetupDocs ==
  BoundaryDocs \cup MurDocs \cup SamplingDocs
    \cup {[BaseDoc EXCEPT !.NumberOfTimesteps = <<"1">>]}

(***************************************************************************)
(* openEMS::Reset                                                          *)
(***************************************************************************)
\* void openEMS::Reset(); what the last SetupFDTD returned is forgotten with it
Reset ==
  /\ pc \in {"setup_done", "done"}
  /\ PA' = NULL /\ FDTD_Eng' = NULL /\ FDTD_Op' = NULL
  /\ pc' = "constructed"
  /\ step' = 0 /\ maxE' = 0 /\ currE' = 0 /\ change' = <<1, 1>> /\ tdiff' = 0
  /\ bursts' = 0 /\ processCalls' = 0 /\ lastIter' = NoIter /\ stopState' = "Running"
  /\ status' = 0 /\ failure' = "none" /\ input' = NoDoc
  /\ destroyed' = Destroyed(PA, FDTD_Eng, FDTD_Op)
  /\ UNCHANGED <<CylinderCoords, Enable_Dumps, debug, m_no_simulation, endCrit,
                 m_OverSampling, m_engine, m_engine_numThreads, m_Abort, NrTS, sentinel,
                 nargs>>

\* openEMS::~openEMS(): Reset(), and the object is gone
Destructor ==
  /\ pc \in {"constructed", "setup_done", "done"}
  /\ PA' = NULL /\ FDTD_Eng' = NULL /\ FDTD_Op' = NULL
  /\ pc' = "destroyed"
  /\ step' = 0 /\ maxE' = 0 /\ currE' = 0 /\ change' = <<1, 1>> /\ tdiff' = 0
  /\ bursts' = 0 /\ processCalls' = 0 /\ lastIter' = NoIter /\ stopState' = "Running"
  /\ status' = 0 /\ failure' = "none" /\ input' = NoDoc
  /\ destroyed' = Destroyed(PA, FDTD_Eng, FDTD_Op)
  /\ UNCHANGED <<CylinderCoords, Enable_Dumps, debug, m_no_simulation, endCrit,
                 m_OverSampling, m_engine, m_engine_numThreads, m_Abort, NrTS, sentinel,
                 nargs>>

(***************************************************************************)
(* The specifications                                                      *)
(***************************************************************************)
\* the object used with command-line arguments, set up any number of times; its
\* documents request no timesteps, so that the loop body is never entered and the
\* abort flag and the file ABORT make no difference
Next ==
  \/ \E argv \in Arguments : parseCommandLineArgument(argv)
  \/ \E doc \in CoreDocs : SetupFDTD(doc)
  \/ Reset
  \/ Destructor
  \/ RunFDTD
  \/ LoopCondition

Spec == Init /\ [][Next]_vars

\* the steps of RunFDTD and of its environment
RunSteps ==
  \/ RunFDTD
  \/ LoopCondition
  \/ LoopBody
  \/ SetAbort
  \/ CreateAbortFile
  \/ RemoveAbortFile

\* one program run without command-line arguments on the setup documents
NextSetup ==
  \/ (pc = "constructed" /\ \E doc \in SetupDocs : SetupFDTD(doc))
  \/ RunSteps

SpecSetup == Init /\ [][NextSetup]_vars

\* one program run without command-line arguments on the run documents
NextRun ==
  \/ (pc = "constructed" /\ \E doc \in RunDocs : SetupFDTD(doc))
  \/ RunSteps

SpecRun == Init /\ [][NextRun]_vars

\* 10 timesteps, oversampling 4, Nyquist number 8, one voltage probe
ScenarioDoc ==
  [BaseDoc EXCEPT !.NumberOfTimesteps = <<"1", "0">>, !.OverSampling = <<"4">>,
                  !.Nyquist = 8, !.probes = <<Probe(TRUE, 0)>>]

\* the step counts the processing array of the scenario returns: no empty burst
ScenarioSteps == StepValues \ {0}

\* one program run without command-line arguments on the scenario document
NextScenario ==
  \/ (pc = "constructed" /\ SetupFDTD(ScenarioDoc))
  \/ RunFDTDWith(ScenarioSteps)
  \/ LoopCondition
  \/ LoopBodyWith(ScenarioSteps)
  \/ SetAbort
  \/ CreateAbortFile
  \/ RemoveAbortFile

SpecScenario == Init /\ [][NextScenario]_vars

\* the documents given one after the other to one object: they differ in the
\* oversampling and in the Nyquist number, and one of them is no file
ReuseDocs ==
  {[BaseDoc EXCEPT !.OverSampling = o, !.Nyquist = n, !.probes = <<Probe(TRUE, 0)>>,
                   !.dumps = <<Dump(TRUE)>>] :
     o \in {NoAttr, <<"0">>, <<"3">>, <<"x">>}, n \in {7, 8}}
    \cup {[BaseDoc EXCEPT !.file = FALSE]}

\* what the conversion of a negative quotient to unsigned int may give
UnsignedOfNegativeValues == {0, 1, 2147483647}

\* documents with a requested number of timesteps, a maximum time and a timestep
CapDocs ==
  {[BaseDoc EXCEPT !.NumberOfTimesteps = t, !.MaxTime = m, !.TimeStep = ts] :
     t \in {NoAttr, <<"-", "1">>, <<"0">>, <<"1">>, <<"2">>, <<"5">>},
     m \in {NoAttr, <<"0">>, <<"1">>, <<"3">>, <<"9">>, <<"x">>},
     ts \in {NoAttr, <<"2">>}}
    \cup {[BaseDoc EXCEPT !.NumberOfTimesteps = t, !.MaxTime = <<"-", "1">>,
                          !.unsignedOfNegative = u] :
            t \in {<<"0">>, <<"2">>, <<"5">>}, u \in UnsignedOfNegativeValues}
    \cup {[BaseDoc EXCEPT !.NumberOfTimesteps = <<"5">>, !.MaxTime = <<"3">>,
                          !.excitationOK = FALSE]}

\* documents with Mur and PML faces, a dispersive material, a geometry that may fail
ExtensionDocs ==
  {[BaseDoc EXCEPT !.BC.face = [AllFaces(<<"0">>) EXCEPT ![1] = a, ![2] = b, ![6] = c],
                   !.lorentz = l, !.geometryOK = g] :
     a \in {<<"0">>, s_MUR, <<"3">>}, b \in {<<"1">>, <<"2">>, <<"3">>},
     c \in {<<"0">>, <<"2">>, <<"P", "M", "L", "_", "8">>}, l \in {0, 1}, g \in BOOLEAN}

\* the documents of the setups that are never run
BuildDocs == CapDocs \cup ExtensionDocs

\* one object that is set up any number of times, never run
NextBuild ==
  \/ \E doc \in BuildDocs : SetupFDTD(doc)
  \/ Reset
  \/ Destructor

SpecBuild == Init /\ [][NextBuild]_vars

\* one object without command-line arguments that is set up any number of times
NextReuse ==
  \/ \E doc \in ReuseDocs : SetupFDTD(doc)
  \/ Reset
  \/ Destructor
  \/ RunFDTD
  \/ LoopCondition

SpecReuse == Init /\ [][NextReuse]_vars

(***************************************************************************)
(* The claims about RunFDTD                                                *)
(***************************************************************************)
InRunFDTD == pc \in {"loop", "burst", "done"}

InLoop == pc \in {"loop", "burst"}

\* C1: whatever step counts PA->Process() returns (negative ones and ones larger than
\* the timesteps left among them), the timestep count of the engine never exceeds NrTS
\* during RunFDTD, and when the loop ends for neither convergence nor abort the count
\* equals NrTS.
Thm_C1 ==
  InRunFDTD =>
    /\ FDTD_Eng.numTS <= NrTS
    /\ (pc = "done" /\ stopState \notin {"Converged", "Aborted"} => FDTD_Eng.numTS = NrTS)

\* C1 witness: the budget of at least two timesteps is used up after two or more
\* bursts, and the last step count returned by PA->Process() had to be replaced
Wit_C1 ==
  /\ pc = "loop" /\ lastIter.clamped /\ bursts >= 2
  /\ NrTS >= 2 /\ FDTD_Eng.numTS = NrTS

\* C2 as claimed (its first part): once an evaluation at a due instant of the
\* energy-tracking processing yields currE/maxE <= endCrit, no further burst is executed.
CE_C2 ==
  [][pc = "loop" /\ lastIter.due /\ maxE > 0 /\ ~Greater(<<currE, maxE>>, endCrit)
       => pc' # "burst"]_vars

\* C2 as amended: the ratio that stops the loop is the one computed at a progress
\* report (more than 4 s after the previous one, maxE nonzero): once such a report
\* yields currE/maxE <= endCrit no further burst is executed and the loop ends as
\* Converged, the ratio is left alone by every iteration without a report, and the
\* energy is sampled only at due instants of the energy-tracking processing and at
\* progress reports.
Thm_C2 ==
  [][/\ (pc = "loop" /\ ~Greater(change, endCrit) /\ FDTD_Eng.numTS < NrTS
           => pc' # "burst" /\ (pc' = "done" => stopState' = "Converged"))
     /\ (pc = "burst" /\ pc' = "loop" /\ lastIter'.report /\ maxE' > 0
           => change'[1] * maxE' = currE' * change'[2])
     /\ (pc = "burst" /\ pc' = "loop" /\ ~lastIter'.report => change' = change)
     /\ (pc = "burst" /\ pc' = "loop" /\ ~lastIter'.due /\ ~lastIter'.report
           => currE' = currE /\ maxE' = maxE)]_vars

\* C2 witness: the loop has ended as Converged with timesteps left
Wit_C2 == pc = "done" /\ stopState = "Converged" /\ FDTD_Eng.numTS < NrTS /\ bursts >= 2

\* C3: with the abort flag set or the file ABORT present at a burst boundary no further
\* burst is executed, whatever the timesteps left and the energy; a burst in flight is
\* not cut short by them; and once the loop has stopped the run executes no further
\* burst, also after the file is removed.
Thm_C3 ==
  [][/\ (pc = "loop" /\ (m_Abort \/ sentinel) => pc' \in {"loop", "done"})
     /\ (pc = "burst" => pc' \in {"burst", "loop"})
     /\ (pc = "burst" /\ pc' = "loop" => bursts' = bursts + 1)
     /\ (pc = "done" => pc' = "done" /\ bursts' = bursts /\ FDTD_Eng' = FDTD_Eng)]_vars

\* C3 witness: the loop was stopped by the file ABORT with timesteps left, and the file
\* has been removed again
Wit_C3 ==
  /\ pc = "done" /\ stopState = "Aborted" /\ ~sentinel /\ ~m_Abort
  /\ FDTD_Eng.numTS < NrTS /\ bursts >= 1

\* C5: maxE never decreases during the run, after every energy sample (at a due instant
\* or at a progress report) currE <= maxE, and the ratio used for the convergence test
\* is never greater than 1.
Thm_C5 ==
  [][/\ (InLoop /\ pc' \in {"loop", "burst"} => maxE' >= maxE)
     /\ (pc = "burst" /\ pc' = "loop" /\ lastIter'.samples > 0 => currE' <= maxE')
     /\ (pc' \in {"loop", "burst"} => change'[1] <= change'[2])]_vars

\* C5 witness: a progress report sampled an energy below the running maximum
Wit_C5 == pc = "loop" /\ lastIter.report /\ 0 < currE /\ currE < maxE

\* the run was not ended early and its bursts were of 2 timesteps, the interval of the
\* scenario (Nyquist 8, oversampling 4), each
ScenarioRun ==
  /\ pc = "done" /\ stopState = "BudgetExhausted" /\ NrTS = 10
  /\ input.Nyquist = 8 /\ m_OverSampling = 4
  /\ FDTD_Eng.numTS = 2 * bursts

\* C4 as claimed: PA->Process() is called once per burst and at no other time, so
\* that the calls are as many as the bursts, 5 for 10 timesteps and an interval of 2.
CE_C4 ==
  InRunFDTD =>
    /\ processCalls = bursts
    /\ (ScenarioRun => processCalls = 5)

\* C4 as amended: PA->Process() is called once before the first burst and once after
\* each burst, and at no other time, so that the calls are one more than the bursts;
\* with 10 timesteps and bursts of 2 timesteps (Nyquist 8, oversampling 4) a run that
\* is not ended early executes 5 bursts and calls PA->Process() 6 times, 5 of them in
\* the loop.
Thm_C4 ==
  InRunFDTD =>
    /\ processCalls = bursts + 1
    /\ (ScenarioRun => bursts = 5 /\ processCalls = 6)

\* C4 witness: the run of the scenario has used up its 10 timesteps
Wit_C4 == ScenarioRun /\ FDTD_Eng.numTS = 10 /\ bursts = 5 /\ processCalls = 6

(***************************************************************************)
(* The claims about SetupFDTD                                              *)
(***************************************************************************)
\* SetupFDTD has returned or has ended the process
AfterSetup == pc \in {"setup_done", "exited"}

\* SetupBoundaryConditions has run on the operator
HasBoundaries == FDTD_Op # NULL /\ FDTD_Op.upml.created

\* C6: with the preprocessing-only flag set no engine and no processing array exist,
\* the time-stepping loop is not entered, and SetupFDTD returns 1 exactly when the flag
\* is set and nothing failed: the status differs from 0 and from the error statuses.
Thm_C6 ==
  /\ (m_no_simulation =>
        FDTD_Eng = NULL /\ PA = NULL /\ pc \notin {"loop", "burst", "done"})
  /\ (AfterSetup => (status = 1 <=> (m_no_simulation /\ failure = "none")))

\* C6 witness: SetupFDTD has built the operator and returned 1
Wit_C6 ==
  /\ m_no_simulation /\ pc = "setup_done" /\ status = 1
  /\ HasBoundaries /\ FDTD_Op.excNrTS = NrTS

\* the boundary type the claim gives a face attribute, -1 for an unrecognized one
ClaimedFaceType(a) ==
  IF a \in {<<"0">>, s_PEC} THEN 0
  ELSE IF a \in {<<"1">>, s_PMC} THEN 1
  ELSE IF a \in {<<"2">>, s_MUR} THEN 2
  ELSE IF a = <<"3">> \/ (Len(a) > 4 /\ SubSeq(a, 1, 4) = <<"P", "M", "L", "_">>) THEN 3
  ELSE 0 - 1

\* C7: on each face the boundary type handed to the operator is one of PEC(0),
\* PMC(1), Mur(2), PML(3): a recognized numeric or string code gives its type, and an
\* unrecognized code, a malformed or a missing attribute gives PEC and a diagnostic.
CE_C7 ==
  HasBoundaries =>
    \A n \in 1 .. 6 :
      LET t == ClaimedFaceType(input.BC.face[n])
      IN  /\ FDTD_Op.bounds[n] \in {0, 1, 2, 3}
          /\ (t >= 0 => FDTD_Op.bounds[n] = t)
          /\ (t < 0 => FDTD_Op.bounds[n] = 0 /\ FDTD_Op.bcDiag[n] # "none")

\* C8 as claimed: the face attribute "PML_=12" gives PML with a layer thickness of 12.
CE_C8 ==
  HasBoundaries =>
    \A n \in 1 .. 6 :
      input.BC.face[n] = <<"P", "M", "L", "_", "=", "1", "2">>
        => FDTD_Op.upml.bounds[n] = 3 /\ FDTD_Op.upml.pml_size[n] = 12

\* C8 as amended: the face attribute "PML_<n>" ("PML_12", "PML_8") gives PML with a
\* layer thickness of n; "PML_=12" gives PML with a layer thickness of 0, since the
\* text behind the first four characters, "=12", starts with no number; the faces
\* whose attribute does not start with "PML_" keep the default thickness 8.
Thm_C8 ==
  HasBoundaries =>
    \A n \in 1 .. 6 :
      LET a == input.BC.face[n]
          type == FDTD_Op.upml.bounds[n]
          size == FDTD_Op.upml.pml_size[n]
      IN  /\ (a = <<"P", "M", "L", "_", "1", "2">> => type = 3 /\ size = 12)
          /\ (a = <<"P", "M", "L", "_", "8">> => type = 3 /\ size = 8)
          /\ (a = <<"P", "M", "L", "_", "=", "1", "2">> => type = 3 /\ size = 0)
          /\ (~(Len(a) >= 4 /\ SubSeq(a, 1, 4) = <<"P", "M", "L", "_">>) => size = 8)

\* C8 witness: a face with "PML_12" has the thickness 12 beside a face with the default
Wit_C8 ==
  /\ pc = "setup_done" /\ HasBoundaries
  /\ \E n, m \in 1 .. 6 :
       /\ input.BC.face[n] = <<"P", "M", "L", "_", "1", "2">>
       /\ FDTD_Op.upml.pml_size[n] = 12
       /\ input.BC.face[m] = <<"0">> /\ FDTD_Op.upml.pml_size[m] = 8

\* the failure classes of the claim: (a) unreadable document, (b) missing top-level or
\* FDTD block, (c) missing boundary-condition block, (d) geometry, (e) excitation
FatalFailures == {"load", "no_openEMS", "no_FDTD", "no_BC", "geometry", "excitation"}

FailureClass(f) ==
  CASE f = "load" -> "a"
    [] f \in {"no_openEMS", "no_FDTD"} -> "b"
    [] f = "no_BC" -> "c"
    [] f = "geometry" -> "d"
    [] f = "excitation" -> "e"

\* C9 as claimed: the status of a fatal failure is nonzero, is not the
\* preprocessing-only status, is the status of no failure of another class, and no
\* engine and no processing array have been created.
CE_C9 ==
  AfterSetup /\ failure \in FatalFailures =>
    /\ status # 0 /\ status # 1
    /\ FDTD_Eng = NULL /\ PA = NULL
    /\ \A g \in FatalFailures :
         FailureClass(g) # FailureClass(failure) => FailureStatus(g) # status

\* C9 as amended: the status is -1 for an unreadable document and for a missing
\* top-level or FDTD block, -3 for a missing boundary-condition block, and 2 for a
\* failed geometry binding and for a failed excitation setup: (a) and (b) share a
\* status, (d) and (e) share one, the three statuses are pairwise distinct and differ
\* from 0 and from 1; all but the geometry failure end the process, and no engine and
\* no processing array have been created.
Thm_C9 ==
  AfterSetup /\ failure \in FatalFailures =>
    /\ (failure \in {"load", "no_openEMS", "no_FDTD"} => status = 0 - 1 /\ pc = "exited")
    /\ (failure = "no_BC" => status = 0 - 3 /\ pc = "exited")
    /\ (failure = "geometry" => status = 2 /\ pc = "setup_done")
    /\ (failure = "excitation" => status = 2 /\ pc = "exited")
    /\ status \notin {0, 1}
    /\ FDTD_Eng = NULL /\ PA = NULL

\* C9 witness: the excitation setup failed on the finished operator
Wit_C9 ==
  /\ pc = "exited" /\ failure = "excitation" /\ status = 2
  /\ HasBoundaries /\ FDTD_Eng = NULL

\* C10 as claimed: every processing in the array during the run has the interval
\* Nyquist div OverSampling.
CE_C10 ==
  InRunFDTD =>
    \A i \in 1 .. Len(PA.procs) :
      /\ PA.procs[i].intervalSet
      /\ PA.procs[i].interval = input.Nyquist \div m_OverSampling

\* C10 as amended: every probe and dump processing that SetupFDTD puts into the array
\* (voltage, current, E and H field, mode match, field dump) has the interval Nyquist
\* div OverSampling whatever its type; the energy-tracking processing that RunFDTD
\* adds as the last one is given no interval.
Thm_C10 ==
  PA # NULL =>
    /\ \A i \in 1 .. Len(PA.procs) :
         IF PA.procs[i].kind = "ProcessFields"
         THEN InRunFDTD /\ i = Len(PA.procs) /\ ~PA.procs[i].intervalSet
         ELSE /\ PA.procs[i].intervalSet
              /\ PA.procs[i].interval = input.Nyquist \div m_OverSampling
    /\ (InRunFDTD => Len(PA.procs) >= 1 /\ PA.procs[Len(PA.procs)].kind = "ProcessFields")

\* C10 witness: a run with mode-match probes and a dump, Nyquist 7 and oversampling 3
Wit_C10 ==
  /\ pc = "loop" /\ input.Nyquist = 7 /\ m_OverSampling = 3
  /\ \E i, j \in 1 .. Len(PA.procs) :
       /\ PA.procs[i].kind = "ProcessModeMatch" /\ PA.procs[i].interval = 2
       /\ PA.procs[j].kind = "ProcessFieldsTD" /\ PA.procs[j].interval = 2

\* the Mur extensions of the operator that are bound to face n (0 .. 5)
MurOfFace(n) ==
  {i \in 1 .. Len(FDTD_Op.exts) :
     /\ FDTD_Op.exts[i].ext = "Mur"
     /\ FDTD_Op.exts[i].ny = n \div 2 /\ FDTD_Op.exts[i].top = n % 2}

\* C11: every face n of type Mur has exactly one Mur extension, bound to axis n/2 and
\* side n%2, and the other faces have none; its phase velocity is the one of the face
\* when the face has one (an attribute that reads as a number), else the general one
\* when that is present and positive, else none is set.
Thm_C11 ==
  HasBoundaries =>
    /\ \A n \in 0 .. 5 :
         LET own == QueryDoubleAttribute(input.BC.murFace[n + 1])
             general == QueryDoubleAttribute(input.BC.MUR_PhaseVelocity)
         IN  IF FDTD_Op.bounds[n + 1] = 2
             THEN /\ Cardinality(MurOfFace(n)) = 1
                  /\ \A i \in MurOfFace(n) :
                       IF own.ec = 0
                         THEN FDTD_Op.exts[i].v_ph_set /\ FDTD_Op.exts[i].v_ph = own.val
                       ELSE IF general.ec = 0 /\ general.val > 0
                         THEN FDTD_Op.exts[i].v_ph_set /\ FDTD_Op.exts[i].v_ph = general.val
                       ELSE ~FDTD_Op.exts[i].v_ph_set
             ELSE MurOfFace(n) = {}
    /\ Cardinality({i \in 1 .. Len(FDTD_Op.exts) : FDTD_Op.exts[i].ext = "Mur"})
         = Cardinality({n \in 0 .. 5 : FDTD_Op.bounds[n + 1] = 2})

\* C11 witness: two Mur faces and a general phase velocity of 5; one face has its own
\* phase velocity 3, the other has none and takes the general one
Wit_C11 ==
  /\ pc = "setup_done" /\ HasBoundaries
  /\ input.BC.MUR_PhaseVelocity = <<"5">>
  /\ \E n, m \in 0 .. 5 :
       /\ input.BC.murFace[n + 1] = <<"3">> /\ input.BC.murFace[m + 1] = NoAttr
       /\ \E i \in MurOfFace(n) : FDTD_Op.exts[i].v_ph_set /\ FDTD_Op.exts[i].v_ph = 3
       /\ \E j \in MurOfFace(m) : FDTD_Op.exts[j].v_ph_set /\ FDTD_Op.exts[j].v_ph = 5

\* the processings of the array that were made for the region r
ProcsOfRegion(r) == {i \in 1 .. Len(PA.procs) : PA.procs[i].region = r}

\* C12: after SetupFDTD has assembled the processing array it holds exactly one
\* processing, of the class of its type, for each probe box that has a primitive and a
\* type among 0, 1, 2, 3, 10, 11, exactly one field dump for each dump box that has a
\* primitive, and nothing else; the other probe and dump boxes are skipped one by one,
\* and SetupFDTD returns 0.
Thm_C12 ==
  pc = "setup_done" /\ PA # NULL =>
    /\ status = 0
    /\ \A i \in 1 .. Len(input.probes) :
         LET t == input.probes[i].type
             P == ProcsOfRegion(<<"probe", i>>)
         IN  IF input.probes[i].prim /\ t \in {0, 1, 2, 3, 10, 11}
             THEN /\ Cardinality(P) = 1
                  /\ \A j \in P :
                       PA.procs[j].kind =
                         (CASE t = 0 -> "ProcessVoltage" [] t = 1 -> "ProcessCurrent"
                            [] t = 2 -> "ProcessEField" [] t = 3 -> "ProcessHField"
                            [] OTHER -> "ProcessModeMatch")
             ELSE P = {}
    /\ \A i \in 1 .. Len(input.dumps) :
         LET D == ProcsOfRegion(<<"dump", i>>)
         IN  IF input.dumps[i].prim
             THEN Cardinality(D) = 1 /\ \A j \in D : PA.procs[j].kind = "ProcessFieldsTD"
             ELSE D = {}
    /\ Len(PA.procs) =
         Cardinality({i \in 1 .. Len(input.probes) :
                        input.probes[i].prim /\ input.probes[i].type \in {0, 1, 2, 3, 10, 11}})
           + Cardinality({i \in 1 .. Len(input.dumps) : input.dumps[i].prim})

\* C12 witness: the second of three probe boxes and the first of two dump boxes have no
\* primitive; the other three are assembled
Wit_C12 ==
  /\ pc = "setup_done" /\ PA # NULL /\ status = 0
  /\ Len(input.probes) = 3 /\ ~input.probes[2].prim
  /\ Len(input.dumps) = 2 /\ ~input.dumps[1].prim
  /\ Len(PA.procs) = 3
  /\ PA.procs[2].region = <<"probe", 3>> /\ PA.procs[3].region = <<"dump", 2>>

\* C13: in every state an engine exists only while its operator exists; whenever
\* Reset() deletes both, it deletes the engine first; and a SetupFDTD that goes beyond
\* the test of the file name deletes the engine, the operator and the processing array
\* that exist, whatever it then creates.
Thm_C13 ==
  /\ [](FDTD_Eng # NULL => FDTD_Op # NULL)
  /\ [](\A i, j \in 1 .. Len(destroyed) :
          destroyed[i] = "FDTD_Eng" /\ destroyed[j] = "FDTD_Op" => i < j)
  /\ [][(/\ pc \in {"setup_done", "done"}
          /\ pc' \in {"setup_done", "exited", "constructed", "destroyed"}
          /\ failure' # "file_null")
        => (/\ (FDTD_Eng # NULL => \E i \in 1 .. Len(destroyed') : destroyed'[i] = "FDTD_Eng")
            /\ (FDTD_Op # NULL => \E i \in 1 .. Len(destroyed') : destroyed'[i] = "FDTD_Op")
            /\ (PA # NULL => \E i \in 1 .. Len(destroyed') : destroyed'[i] = "PA")
            /\ (FDTD_Op' = NULL => FDTD_Eng' = NULL))]_vars

\* C13 witness: a SetupFDTD that failed in the geometry, after a run: the processing
\* array, the engine and the operator of the run were deleted, and a new operator
\* exists without an engine
Wit_C13 ==
  /\ pc = "setup_done" /\ failure = "geometry"
  /\ destroyed = <<"PA", "FDTD_Eng", "FDTD_Op">>
  /\ FDTD_Op # NULL /\ FDTD_Eng = NULL /\ PA = NULL

\* the oversampling the claim expects for the attribute OverSampling: its value, 2 for
\* a value below 2, and 4 when the document configures none
ClaimedOverSampling(a) ==
  IF QueryIntAttribute(a).ec # 0 THEN 4
  ELSE IF QueryIntAttribute(a).val < 2 THEN 2 ELSE QueryIntAttribute(a).val

\* C14: whenever SetupFDTD has computed the intervals of the processings, the
\* oversampling in use is at least 2 and is the configured value, 2 for a configured
\* value below 2 and the default 4 when none is configured, and every interval was
\* computed with it.
CE_C14 ==
  pc = "setup_done" /\ failure = "none" /\ PA # NULL =>
    /\ m_OverSampling >= 2
    /\ m_OverSampling = ClaimedOverSampling(input.OverSampling)
    /\ \A i \in 1 .. Len(PA.procs) :
         PA.procs[i].interval = input.Nyquist \div ClaimedOverSampling(input.OverSampling)

(***************************************************************************)
(* C15: the timestep budget NrTS is the requested count, 0 when the        *)
(* request is negative, unless the time cap in whole timesteps is at least *)
(* 1 and below the requested count: then it is the cap.  A zero or unset   *)
(* cap changes nothing.  The excitation is set up with the clamped budget. *)
(***************************************************************************)
ClaimedRequest(doc) ==
  LET q == QueryIntAttribute(doc.NumberOfTimesteps)
  IN  IF q.ec = TIXML_SUCCESS /\ q.val >= 0 THEN q.val ELSE 0

ClaimedBudget(doc) ==
  IF MaxTimeTS(doc) >= 1 /\ MaxTimeTS(doc) < ClaimedRequest(doc)
  THEN MaxTimeTS(doc) ELSE ClaimedRequest(doc)

Thm_C15 ==
  pc \in {"setup_done", "exited"} /\ failure \in {"none", "excitation"} =>
    /\ NrTS = ClaimedBudget(input)
    /\ FDTD_Op.excNrTS = NrTS

Wit_C15 ==
  /\ pc = "setup_done" /\ failure = "none"
  /\ input.NumberOfTimesteps = <<"5">> /\ input.MaxTime = <<"3">>
  /\ input.TimeStep = <<"2">>
  /\ NrTS = 1 /\ FDTD_Op.excNrTS = 1

(***************************************************************************)
(* C16: the operator that a setup creates is the multi-grid cylindrical    *)
(* one when the cylindrical flag is set and the document has a radius      *)
(* list, the cylindrical one when the flag is set without a list, and      *)
(* otherwise the variant of the engine the command line left selected      *)
(* (sse, compressed sse, multithreaded, else the standard one); with the   *)
(* cylindrical flag set the engine selection does not matter.              *)
(***************************************************************************)
ClaimedVariant ==
  CASE CylinderCoords /\ input.MultiGrid -> "Operator_CylinderMultiGrid"
    [] CylinderCoords /\ ~input.MultiGrid -> "Operator_Cylinder"
    [] ~CylinderCoords /\ m_engine = "EngineType_SSE" -> "Operator_sse"
    [] ~CylinderCoords /\ m_engine = "EngineType_SSE_Compressed" -> "Operator_SSE_Compressed"
    [] ~CylinderCoords /\ m_engine = "EngineType_Multithreaded" -> "Operator_Multithread"
    [] OTHER -> "Operator"

\* the last SetupFDTD got as far as creating an operator
CreatedOperator == FDTD_Op # NULL /\ failure \in {"geometry", "excitation", "none"}

Thm_C16 ==
  CreatedOperator => FDTD_Op.variant = ClaimedVariant

Wit_C16 ==
  /\ CreatedOperator /\ CylinderCoords /\ ~input.MultiGrid
  /\ m_engine = "EngineType_SSE_Compressed"
  /\ FDTD_Op.variant = "Operator_Cylinder"

Wit_C16_Engine ==
  /\ CreatedOperator /\ ~CylinderCoords /\ nargs = 2
  /\ m_engine = "EngineType_SSE"
  /\ FDTD_Op.variant = "Operator_sse"

(***************************************************************************)
(* C17: in every setup the geometry is bound to the operator first, then   *)
(* the six boundary types are assigned, and only then is any extension     *)
(* (Mur, PML, dispersive material) constructed or registered; an operator  *)
(* without assigned boundary types has no extension.                       *)
(***************************************************************************)
ExtensionCalls ==
  {"new Operator_Ext_Mur_ABC", "AddExtension", "Create_UPML",
   "new Operator_Ext_LorentzMaterial"}

\* the positions of the call c among the operator's calls
CallsOf(c) == {i \in 1 .. Len(FDTD_Op.calls) : FDTD_Op.calls[i] = c}

Thm_C17 ==
  CreatedOperator =>
    /\ \A j \in 1 .. Len(FDTD_Op.calls) :
         FDTD_Op.calls[j] \in ExtensionCalls =>
           \E i \in CallsOf("SetBoundaryCondition") : i < j
    /\ \A i \in CallsOf("SetBoundaryCondition") :
         \E k \in CallsOf("SetGeometryCSX") : k < i
    /\ Cardinality(CallsOf("AddExtension")) = Len(FDTD_Op.exts)
    /\ FDTD_Op.upml.created = (CallsOf("Create_UPML") # {})
    /\ (FDTD_Op.bounds = <<>>) = (CallsOf("SetBoundaryCondition") = {})
    /\ (failure # "geometry" => Len(FDTD_Op.bounds) = 6)
    /\ (FDTD_Op.bounds = <<>> => FDTD_Op.exts = <<>> /\ ~FDTD_Op.upml.created)

Wit_C17 ==
  /\ CreatedOperator /\ failure = "none"
  /\ FDTD_Op.bounds = <<2, 3, 0, 0, 0, 3>>
  /\ FDTD_Op.calls = <<"SetGeometryCSX", "SetBoundaryCondition",
                       "new Operator_Ext_Mur_ABC", "AddExtension", "Create_UPML",
                       "new Operator_Ext_LorentzMaterial", "AddExtension">>

(***************************************************************************)
(* C18: the size of every burst handed to the engine, the first one        *)
(* included, is the step count the processing array returned last when     *)
(* that count is between 0 and the timesteps left (NrTS minus the engine's *)
(* count), and is the timesteps left when the returned count is negative   *)
(* or larger than that.                                                    *)
(***************************************************************************)
ClaimedBurst(returned, left) ==
  IF 0 <= returned /\ returned <= left THEN returned ELSE left

Thm_C18 ==
  /\ [](InLoop =>
         step = ClaimedBurst(lastIter.returned, NrTS - FDTD_Eng.numTS))
  /\ [][pc = "burst" /\ pc' = "loop" =>
          FDTD_Eng'.numTS = FDTD_Eng.numTS + step]_vars

\* a later burst cut down to the one timestep left, and a first burst as returned
Wit_C18 ==
  /\ pc = "burst" /\ bursts = 1 /\ NrTS = 2 /\ FDTD_Eng.numTS = 1
  /\ lastIter.returned = 2 /\ step = 1

(***************************************************************************)
(* C19: in the loop a progress report and a flush of the processing array  *)
(* happen only together, and only at the end of a burst at which more than *)
(* 4 seconds have passed since the previous report and flush (since the    *)
(* time taken ahead of the loop when there was none); a burst without a    *)
(* report flushes nothing.                                                 *)
(***************************************************************************)
Thm_C19 ==
  InLoop =>
    /\ lastIter.flushed = lastIter.report
    /\ (lastIter.report \/ lastIter.flushed => lastIter.late)
    /\ (bursts = 0 => ~lastIter.report /\ ~lastIter.flushed)

\* a report with a flush after two bursts of 3 seconds
Wit_C19 ==
  /\ pc = "loop" /\ bursts = 2
  /\ lastIter.report /\ lastIter.flushed /\ lastIter.late /\ lastIter.since = 0

\* a burst that ends 3 seconds after the start reports and flushes nothing
Wit_C19_Quiet ==
  /\ pc = "loop" /\ bursts = 1 /\ lastIter.since = 3
  /\ ~lastIter.report /\ ~lastIter.flushed

(***************************************************************************)
(* C20: whatever step counts the processing array returns, with no abort   *)
(* and no decay of the energy, the loop of RunFDTD leaves Running: every   *)
(* burst that is executed advances the engine by at least one timestep, so *)
(* a run executes at most NrTS bursts.                                     *)
(***************************************************************************)
CE_C20 ==
  /\ [][pc = "burst" /\ pc' = "loop" => FDTD_Eng'.numTS > FDTD_Eng.numTS]_vars
  /\ [](InRunFDTD /\ FDTD_Eng # NULL => bursts <= NrTS)

(***************************************************************************)
(* C21: with an end criterion below 1 the loop does not stop for           *)
(* convergence while maxE is zero: the ratio change keeps its first value  *)
(* 1 until a sample has made maxE positive, so a run without energy ends   *)
(* only when the timesteps are used up or on abort.                        *)
(***************************************************************************)
EndCritBelowOne == Greater(<<1, 1>>, endCrit)

Thm_C21 ==
  /\ [](InLoop => maxE >= 0 /\ (maxE = 0 => change = <<1, 1>>))
  /\ [][(pc = "loop" /\ maxE = 0 /\ EndCritBelowOne) =>
          (stopState' \in {"Running", "BudgetExhausted", "Aborted"})]_vars

\* a run that sampled and reported no energy and has used up its timesteps
Wit_C21 ==
  /\ pc = "loop" /\ EndCritBelowOne /\ maxE = 0 /\ change = <<1, 1>>
  /\ lastIter.due /\ lastIter.report
  /\ NrTS >= 1 /\ FDTD_Eng.numTS = NrTS

====
